---- MODULE Spec2Model ----
(***************************************************************************)
(* Model of the UploadApp API core: the in-memory upload token service,    *)
(* the two ingestion paths (PUT /direct-upload/:uploadId and               *)
(* UploadService.createUpload), the storage providers, the webhook         *)
(* delivery engine and API key authentication.                             *)
(*                                                                         *)
(* Node runs every handler on one thread: the code between two awaits is   *)
(* one atomic step, and handlers interleave at their awaits.  Each action  *)
(* below is one such step; an awaited I/O call (file write, database       *)
(* statement, HTTP POST) takes effect in the step in which it settles.     *)
(*                                                                         *)
(* The actions take their inputs as parameters.  Each specification at the *)
(* end of the module composes the actions of one part of the program and   *)
(* draws the inputs from the sets that exercise it.                        *)
(***************************************************************************)
EXTENDS Integers, Sequences, FiniteSets, TLC

\* ---------------------------------------------------------------- bounds
MaxTime       == 3   \* clock ticks the model lets pass
MaxTokens     == 2   \* generateUploadToken calls
MaxPut        == 2   \* PUT /direct-upload/:uploadId requests
MaxCreate     == 2   \* createUpload calls
MaxIngest     == 1   \* requests per ingestion path in SpecIngest
MaxDeliveries == 1   \* triggerEvent calls in SpecWebhook
MaxRetry      == 1   \* retryDelivery calls
MaxEmit       == 3   \* triggerEvent calls in SpecFailing
MaxHooks      == 1   \* createWebhook calls
MaxAuth       == 3   \* requests that present an API key
MaxKeyOps     == 2   \* updateApiKey and revokeApiKey calls
MaxDelete     == 2   \* StorageService.delete calls

\* ------------------------------------------------------- program constants
\* Time is counted in ticks of 7.5 minutes and sizes in units of 50 MiB, so
\* that the two limits keep their relation to the inputs (below, at and
\* above the limit) at a size TLC can enumerate.
TOKEN_EXPIRY_MS == 2
MAX_FILE_SIZE   == 2
\* attemptDelivery: "attempt >= 3" and "attempt < 3"
MAX_ATTEMPTS    == 3
\* checkRateLimit: Date.now() - 60 * 60 * 1000, in ticks
ONE_HOUR        == 8

\* ------------------------------------------------------------ input sets
None    == "none"
Users   == {"u1", "u2"}
Orgs    == {"o1"}
Mimes   == {"image/png", "text/plain"}
\* request bodies: byte sequences; size is the length
Files   == {<<0>>, <<1>>, <<0, 0>>}
NoFile  == <<>>
Missing == 0        \* no x-upload-token header
Unknown == -1       \* a header value generateUploadToken never returned
Providers == {"local", "b2"}

Size(file) == Len(file)

\* crypto.createHash('sha256').update(buffer).digest('hex'): a digest that
\* is a function of the bytes and of nothing else
Checksum(file) == <<"sha256", file>>

VARIABLES
  now,           \* Date.now(), in ticks
  uploadTokens,  \* DirectUploadService.uploadTokens : token -> UploadToken
  nextToken,     \* number of tokens generated so far (token n is the n-th)
  put,           \* PUT /direct-upload requests, by slot
  cu,            \* createUpload calls, by slot
  provider,      \* the StorageProvider chosen by getStorageProvider
  disk,          \* files below ./uploads : set of [path, bytes]
  bucket,        \* objects of the B2 bucket : set of [path, bytes]
  uploads,       \* rows of the uploads table, in insertion order
  usage,         \* upload ids trackUpload has recorded
  auditLog,      \* audit_logs rows with resource 'upload'
  events,        \* triggerEvent calls that got their webhooks, in order
  webhooks,      \* rows of the webhooks table
  deliveries,    \* rows of the webhook_deliveries table, in insertion order
  chains,        \* attemptDelivery call chains, in start order
  autoPosts,     \* per delivery: POSTs not issued directly by retryDelivery
  apiKeys,       \* rows of the api_keys table, by id
  keyAudit,      \* audit_logs rows with resource 'api_key', in order
  auth,          \* the API key authentication in progress or last finished
  del,           \* the last StorageService.delete call and its outcome
  resp           \* the last answer of a call whose outcome is only its result

tokenVars   == <<uploadTokens, nextToken>>
storeVars   == <<disk, bucket, uploads, usage, auditLog>>
webhookVars == <<events, webhooks, deliveries, chains, autoPosts>>
keyVars     == <<apiKeys, keyAudit, auth>>
vars == <<now, uploadTokens, nextToken, put, cu, provider, disk, bucket,
          uploads, usage, auditLog, events, webhooks, deliveries, chains,
          autoPosts, apiKeys, keyAudit, auth, del, resp>>

NoToken == [uploadId |-> 0]
Tokens  == 1..MaxTokens
Idle    == [pc |-> "idle"]

\* a file store after writing bytes at path (an existing file is replaced)
WriteAt(store, path, bytes) ==
  {d \in store : d.path # path} \cup {[path |-> path, bytes |-> bytes]}

Paths(store) == {d.path : d \in store}

\* ---------------------------------------------------------------- tokens
\* validateToken line 87: new Date() > uploadToken.expiresAt
Expired(t) == now > t.expiresAt

\* validateToken, lines 79-93: the token it returns, or NoToken for null
validateToken(token) ==
  IF token \notin Tokens \/ uploadTokens[token] = NoToken THEN NoToken
  ELSE IF Expired(uploadTokens[token]) THEN NoToken
  ELSE uploadTokens[token]

\* ValidateTable deleting every expired entry, not only the one presented
ValidateTable_Sweep(token) ==
  IF token \in Tokens /\ uploadTokens[token] # NoToken
  THEN [k \in Tokens |->
          IF uploadTokens[k] # NoToken /\ Expired(uploadTokens[k])
          THEN NoToken ELSE uploadTokens[k]]
  ELSE uploadTokens

\* the table after validateToken(token): an expired entry is deleted
ValidateTable(token) ==
  IF token \in Tokens /\ uploadTokens[token] # NoToken
       /\ Expired(uploadTokens[token])
  THEN [uploadTokens EXCEPT ![token] = NoToken]
  ELSE uploadTokens

\* cleanupExpiredTokens, lines 105-112
cleanupExpiredTokens(table) ==
  [k \in Tokens |->
     IF table[k] # NoToken /\ now > table[k].expiresAt THEN NoToken
     ELSE table[k]]

\* consumeToken, lines 98-100
consumeToken(token) == [uploadTokens EXCEPT ![token] = NoToken]

\* the clock advances
Tick ==
  /\ now < MaxTime
  /\ now' = now + 1
  /\ UNCHANGED <<keyVars, del, resp, tokenVars, put, cu, provider, storeVars,
                 webhookVars>>

\* generateUploadToken, lines 31-74 (called by POST /prepare once the
\* request body and the subscription gate have been accepted)
\* StoreToken granting the ceiling instead of the declared size
StoreToken_Capped(userId, mimeType, fileSize) ==
  [uploadTokens EXCEPT ![nextToken] =
     [uploadId         |-> nextToken,
      expiresAt        |-> now + TOKEN_EXPIRY_MS,
      maxFileSize      |-> MAX_FILE_SIZE,
      allowedMimeTypes |-> {mimeType},
      userId           |-> userId]]

\* lines 48-60: the table after uploadTokens.set(token, {...})
StoreToken(userId, mimeType, fileSize) ==
  [uploadTokens EXCEPT ![nextToken] =
     [uploadId         |-> nextToken,
      expiresAt        |-> now + TOKEN_EXPIRY_MS,
      maxFileSize      |-> fileSize,
      allowedMimeTypes |-> {mimeType},
      userId           |-> userId]]

\* what a generateUploadToken call gave its caller: the thrown message, or
\* the uploadId of the stored token
Prepared(error, uploadId) ==
  [op |-> "generateUploadToken", error |-> error, uploadId |-> uploadId]

generateUploadToken(userId, mimeType, fileSize) ==
  /\ nextToken <= MaxTokens
  /\ IF fileSize > MAX_FILE_SIZE
     THEN /\ resp' = Prepared("File size exceeds maximum allowed size", 0)
          /\ UNCHANGED tokenVars
     ELSE /\ uploadTokens' =
               cleanupExpiredTokens(StoreToken(userId, mimeType, fileSize))
          /\ nextToken' = nextToken + 1
          /\ resp' = Prepared(None, nextToken)
  /\ UNCHANGED <<keyVars, del, now, put, cu, provider, storeVars,
                 webhookVars>>

\* ------------------------------------------------ webhook delivery engine
RECURSIVE SeqOf(_)
\* the elements of a finite set of integers, in increasing order
SeqOf(S) ==
  IF S = {} THEN <<>>
  ELSE LET m == CHOOSE x \in S : \A y \in S : x <= y
       IN <<m>> \o SeqOf(S \ {m})

\* A JavaScript value the engine handles is a payload object or a string
\* obtained from one by JSON encoding: [level, event, data], level 0 the
\* object, level 1 its JSON text, level 2 the JSON text of that string (a
\* quoted, escaped copy of it), and so on.
\* JSON.stringify encodes once more; JSON.parse undoes one encoding
Stringify(v) == [v EXCEPT !.level = @ + 1]
Parse(s)     == [s EXCEPT !.level = @ - 1]

\* Matching without the isActive condition of the where clause
Matching_Inactive(userId, event) ==
  {w.id : w \in {x \in webhooks : x.userId = userId /\ event \in x.events}}

\* triggerEvent lines 110-118: the webhooks findMany selects
Matching(userId, event) ==
  {w.id : w \in {x \in webhooks :
                   x.userId = userId /\ x.isActive /\ event \in x.events}}

\* deliverWebhook lines 137-156: the payload and the row it inserts
Payload(event, data) == [level |-> 0, event |-> event, data |-> data]

NewDelivery(webhookId, event, data) ==
  [webhookId |-> webhookId,
   event     |-> event,
   payload   |-> Stringify(Payload(event, data)),
   status    |-> "PENDING",
   attempts  |-> 0]

\* a call chain of attemptDelivery: the call in progress and the timer
\* retries that follow it.  settled: the first call, the one the starter
\* awaits, has returned.
NewChain(d, attempt, manual, caller) ==
  [d |-> d, attempt |-> attempt, pc |-> "post",
   manual |-> manual, settled |-> FALSE, caller |-> caller]

\* triggerEvent, lines 108-131, with deliverWebhook, lines 136-160, up to
\* the POST of each first attempt.  failing: the selected webhooks whose
\* prisma.webhookDelivery.create rejects; deliverWebhook rejects for them
\* and Promise.allSettled (line 130) takes the rejection.
triggerEvent(userId, event, data, caller, failing) ==
  LET ws == SeqOf(Matching(userId, event) \ failing)
      n  == Len(deliveries)
  IN /\ events' = Append(events,
                    [event |-> event, userId |-> userId, data |-> data,
                     failed |-> failing])
     /\ deliveries' = deliveries \o
          [i \in 1..Len(ws) |-> NewDelivery(ws[i], event, data)]
     /\ chains' = chains \o
          [i \in 1..Len(ws) |-> NewChain(n + i, 1, FALSE, caller)]
     /\ autoPosts' = autoPosts \o [i \in 1..Len(ws) |-> 1]
     /\ UNCHANGED webhooks

\* every attemptDelivery call that caller awaits has returned
Settled(caller) ==
  \A c \in DOMAIN chains : chains[c].caller = caller => chains[c].settled

\* the payload argument of the attemptDelivery calls of a chain:
\* deliverWebhook (line 159) passes the payload object it has built, whose
\* JSON text it stored on the row; retryDelivery (line 257) passes
\* JSON.parse(JSON.stringify(delivery.payload)) of what it reads from the
\* row
Body(c) ==
  IF chains[c].manual
  THEN Parse(Stringify(deliveries[chains[c].d].payload))
  ELSE Parse(deliveries[chains[c].d].payload)

\* generateSignature, lines 284-290: the HMAC-SHA256 of the secret over
\* JSON.stringify(payload), a function of the two and of nothing else
generateSignature(payload, secret) == <<"hmac", secret, Stringify(payload)>>

Secret(webhookId) == (CHOOSE w \in webhooks : w.id = webhookId).secret

\* the X-Webhook-Signature header of the POSTs of a chain, lines 145, 258
\* and 176
Signature(c) ==
  generateSignature(Body(c), Secret(deliveries[chains[c].d].webhookId))

\* the bytes axios.post (line 173) sends for its data argument: the JSON
\* text of an object, a string as it is
Wire(data) == IF data.level = 0 THEN Stringify(data) ELSE data

\* a triggerEvent call from outside the ingestion paths
TriggerEvent(userId, event, failing) ==
  /\ Len(events) < MaxDeliveries
  /\ failing \subseteq Matching(userId, event)
  /\ triggerEvent(userId, event, 0, <<"emit">>, failing)
  /\ UNCHANGED <<keyVars, del, resp, now, tokenVars, put, cu, provider,
                 storeVars>>

\* webhook_deliveries.webhookId references webhooks(id) ON DELETE CASCADE
\* (migration.sql line 407): deleting a webhook deletes its deliveries.
\* deliveries keeps the position of such a row, so that positions stay
\* ids; the row is in the table while its webhook is
RowExists(d) == \E w \in webhooks : w.id = deliveries[d].webhookId

\* the status attemptDelivery writes after a failed POST, line 208
FailedStatus(attempt) ==
  IF attempt >= MAX_ATTEMPTS THEN "FAILED" ELSE "PENDING"

\* Retries with the last retry dropped: the chain gives up one attempt early
Retries_Early(attempt) == attempt < MAX_ATTEMPTS - 1

\* whether attemptDelivery schedules a retry, line 213
Retries(attempt) == attempt < MAX_ATTEMPTS

\* attemptDelivery, lines 172-223, from the moment axios.post settles, with
\* a 2xx response (ok) or with an error: the update of the row, when it
\* succeeds, and, after a failure, the retry timer.  Nothing the call does
\* after the POST reads the state, so the POST's outcome and the update
\* are one step.  A chain that has ended keeps no attempt number.
AttemptSettle(c, ok) ==
  /\ c \in DOMAIN chains
  /\ chains[c].pc = "post"
  /\ RowExists(chains[c].d)
  /\ LET ch == chains[c] IN
     /\ deliveries' = [deliveries EXCEPT ![ch.d] =
          [@ EXCEPT !.attempts = ch.attempt,
                    !.status   = IF ok THEN "DELIVERED"
                                 ELSE FailedStatus(ch.attempt)]]
     /\ chains' = [chains EXCEPT ![c] =
          IF ~ok /\ Retries(ch.attempt)
          THEN [ch EXCEPT !.settled = TRUE, !.pc = "timer"]
          ELSE [ch EXCEPT !.settled = TRUE, !.pc = "end", !.attempt = 0]]
  /\ UNCHANGED <<keyVars, del, resp, now, tokenVars, put, cu, provider,
                 storeVars, events, webhooks, autoPosts>>

\* attemptDelivery lines 217-219: the timer fires and calls
\* attemptDelivery with attempt + 1
TimerFire(c) ==
  /\ c \in DOMAIN chains
  /\ chains[c].pc = "timer"
  /\ chains' = [chains EXCEPT ![c].pc = "post",
                              ![c].attempt = chains[c].attempt + 1]
  /\ autoPosts' = [autoPosts EXCEPT ![chains[c].d] = @ + 1]
  /\ UNCHANGED <<keyVars, del, resp, now, tokenVars, put, cu, provider,
                 storeVars, events, webhooks, deliveries>>

Owner(webhookId) == (CHOOSE w \in webhooks : w.id = webhookId).userId

ManualChains == {c \in DOMAIN chains : chains[c].manual}

\* retryDelivery, lines 243-261, up to the POST of attemptDelivery
retryDelivery(deliveryId, userId) ==
  /\ Cardinality(ManualChains) < MaxRetry
  /\ deliveryId \in DOMAIN deliveries
  /\ RowExists(deliveryId)
  /\ Owner(deliveries[deliveryId].webhookId) = userId
  /\ chains' = Append(chains,
       NewChain(deliveryId, deliveries[deliveryId].attempts + 1, TRUE,
                <<"retry">>))
  /\ UNCHANGED <<keyVars, del, resp, now, tokenVars, put, cu, provider,
                 storeVars, events, webhooks, deliveries, autoPosts>>

\* generateSecret, lines 306-308: 32 random bytes, a fresh value for each
\* webhook
generateSecret(id) == <<"s1", "s2", "s3", "s4", "s5", "s6">>[id]

\* createWebhook, lines 26-42: the secret is the one given or a generated
\* one
createWebhook(userId, evs, secret, isActive) ==
  /\ Cardinality(webhooks) < 3 + MaxHooks
  /\ LET id == Cardinality(webhooks) + 1 IN
     webhooks' = webhooks \cup
       {[id |-> id, userId |-> userId, isActive |-> isActive,
         events |-> evs,
         secret |-> IF secret = None THEN generateSecret(id) ELSE secret]}
  /\ UNCHANGED <<keyVars, del, resp, now, tokenVars, put, cu, provider,
                 storeVars, events, deliveries, chains, autoPosts>>

\* ------------------------------------------- PUT /direct-upload/:uploadId
\* A request record keeps, in order, the steps its handler has completed:
\* "write" (storage write), "persist" (row inserted), "consume" (token
\* deleted), "emit" (triggerEvent called).
Fail(token, msg, order) ==
  [pc |-> "failed", token |-> token, err |-> msg, order |-> order]
Done(token, recId, order) ==
  [pc |-> "done", token |-> token, recId |-> recId, order |-> order]

\* generateFilePath, lines 117-130:
\* users/<userId>/<yyyy>/<mm>/<base>-<ms>-<random><ext>; the random suffix
\* is drawn once per request, so the request slot stands for it
generateFilePath(userId, r) ==
  [folder |-> <<"users", userId>>, name |-> "a.png", suffix |-> <<"put", r>>]

FirstIdle(slots, r) ==
  slots[r] = Idle /\ \A q \in 1..(r - 1) : slots[q] # Idle

\* lines 185-221: the handler up to its first await
PutReceive(r, token, uploadId, file, mime) ==
  /\ FirstIdle(put, r)
  /\ LET uploadToken == validateToken(token) IN
     /\ uploadTokens' = IF token = Missing THEN uploadTokens
                        ELSE ValidateTable(token)
     /\ put' = [put EXCEPT ![r] =
          IF token = Missing THEN Fail(token, "Missing upload token", <<>>)
          ELSE IF uploadToken = NoToken \/ uploadToken.uploadId # uploadId
            THEN Fail(token, "Invalid or expired upload token", <<>>)
          ELSE IF file = NoFile THEN Fail(token, "No file provided", <<>>)
          ELSE IF Size(file) > uploadToken.maxFileSize
            THEN Fail(token, "File size exceeds allowed limit", <<>>)
          ELSE IF mime \notin uploadToken.allowedMimeTypes
            THEN Fail(token, "File type not allowed", <<>>)
          ELSE [pc |-> "writing", token |-> token,
                userId |-> uploadToken.userId, file |-> file,
                mime |-> mime, recId |-> 0, order |-> <<>>]]
  /\ UNCHANGED <<keyVars, del, resp, now, nextToken, cu, provider, storeVars,
                 webhookVars>>

\* PutWriteFile with a rejected write swallowed: the handler goes on as if
\* the file had been written
PutWriteFile_Swallowed(r, ok) ==
  /\ put[r].pc = "writing"
  /\ disk' = IF ok THEN WriteAt(disk, generateFilePath(put[r].userId, r),
                                put[r].file)
             ELSE disk
  /\ put' = [put EXCEPT ![r].pc = "written",
                        ![r].order = IF ok THEN Append(@, "write") ELSE @]
  /\ UNCHANGED <<keyVars, del, resp, now, tokenVars, cu, provider, bucket,
                 uploads, usage, auditLog, webhookVars>>

\* lines 221-227: ensureDirectory and fs.promises.writeFile settle; either
\* may reject
PutWriteFile(r, ok) ==
  /\ put[r].pc = "writing"
  /\ IF ok
     THEN /\ disk' = WriteAt(disk, generateFilePath(put[r].userId, r),
                             put[r].file)
          /\ put' = [put EXCEPT ![r].pc = "written",
                                ![r].order = Append(@, "write")]
     ELSE /\ disk' = disk
          /\ put' = [put EXCEPT ![r] = Fail(put[r].token, "write failed",
                                          put[r].order)]
  /\ UNCHANGED <<keyVars, del, resp, now, tokenVars, cu, provider, bucket,
                 uploads, usage, auditLog, webhookVars>>

\* lines 229-233: the continuation of writeFile consumes the token and
\* issues the insert
PutConsume(r) ==
  /\ put[r].pc = "written"
  /\ uploadTokens' = consumeToken(put[r].token)
  /\ put' = [put EXCEPT ![r].pc = "creating",
                        ![r].order = Append(@, "consume")]
  /\ UNCHANGED <<keyVars, del, resp, now, nextToken, cu, provider, storeVars,
                 webhookVars>>

\* the row prisma.upload.create inserts (part_005 lines 233-250,
\* part_017 lines 89-108); via names the request that inserted it
NewUpload(userId, organizationId, file, mime, path, via) ==
  [id             |-> Len(uploads) + 1,
   userId         |-> userId,
   organizationId |-> organizationId,
   checksum       |-> Checksum(file),
   size           |-> Size(file),
   mimeType       |-> mime,
   storagePath    |-> path,
   deletedAt      |-> None,
   via            |-> via]

\* lines 233-250: prisma.upload.create settles
PutCreate(r, ok) ==
  /\ put[r].pc = "creating"
  /\ IF ok
     THEN /\ uploads' = Append(uploads,
               NewUpload(put[r].userId, None, put[r].file, put[r].mime,
                         generateFilePath(put[r].userId, r),
                         [path |-> "put", slot |-> r,
                          token |-> put[r].token]))
          /\ put' = [put EXCEPT ![r].pc = "tracking",
                                ![r].recId = Len(uploads) + 1,
                                ![r].order = Append(@, "persist")]
     ELSE /\ uploads' = uploads
          /\ put' = [put EXCEPT ![r] = Fail(put[r].token, "create failed",
                                          put[r].order)]
  /\ UNCHANGED <<keyVars, del, resp, now, tokenVars, cu, provider, disk,
                 bucket, usage, auditLog, webhookVars>>

\* line 253: subscriptionService.trackUpload settles; it throws when the
\* user has no subscription
PutTrack(r, ok) ==
  /\ put[r].pc = "tracking"
  /\ IF ok
     THEN /\ usage' = usage \cup {put[r].recId}
          /\ put' = [put EXCEPT ![r].pc = "emitting"]
     ELSE /\ usage' = usage
          /\ put' = [put EXCEPT ![r] = Fail(put[r].token, "track failed",
                                          put[r].order)]
  /\ UNCHANGED <<keyVars, del, resp, now, tokenVars, cu, provider, disk,
                 bucket, uploads, auditLog, webhookVars>>

\* lines 256-270: webhookService.triggerEvent is called; found: its
\* prisma.webhook.findMany resolves, otherwise triggerEvent rejects and the
\* handler's catch passes the error on
PutTrigger(r, found, failing) ==
  /\ put[r].pc = "emitting"
  /\ failing \subseteq Matching(put[r].userId, "upload.completed")
  /\ IF found
     THEN /\ triggerEvent(put[r].userId, "upload.completed", put[r].recId,
                          <<"put", r>>, failing)
          /\ put' = [put EXCEPT ![r].pc = "responding",
                                ![r].order = Append(@, "emit")]
     ELSE /\ failing = {}
          /\ put' = [put EXCEPT ![r] = Fail(put[r].token, "lookup failed",
                                          put[r].order)]
          /\ UNCHANGED webhookVars
  /\ UNCHANGED <<keyVars, del, resp, now, tokenVars, cu, provider, storeVars>>

\* lines 270-285: triggerEvent has returned; res.json with the record's
\* public fields
PutRespond(r) ==
  /\ put[r].pc = "responding"
  /\ Settled(<<"put", r>>)
  /\ put' = [put EXCEPT ![r] = Done(put[r].token, put[r].recId, put[r].order)]
  /\ UNCHANGED <<keyVars, del, resp, now, tokenVars, cu, provider, storeVars,
                 webhookVars>>

\* --------------------------------------------- UploadService.createUpload
ALLOWED_MIME_TYPES == {"image/png", "text/plain"}
dangerousExtensions == {".exe"}
Filenames == {"a.png", "a.exe"}
extname(filename) == IF filename = "a.exe" THEN ".exe" ELSE ".png"

\* validateFile, lines 284-309: the error it throws, or None
validateFile(file, filename, mime) ==
  IF Size(file) > MAX_FILE_SIZE THEN "File size exceeds maximum"
  ELSE IF mime \notin ALLOWED_MIME_TYPES THEN "File type is not allowed"
  ELSE IF extname(filename) \in dangerousExtensions
    THEN "File extension is not allowed"
  ELSE None

\* findDuplicate, lines 321-337: the rows the where clause selects; a
\* userId or organizationId that is not given adds no condition
findDuplicate(checksum, userId, organizationId) ==
  {i \in DOMAIN uploads :
     /\ uploads[i].checksum = checksum
     /\ userId # None => uploads[i].userId = userId
     /\ organizationId # None => uploads[i].organizationId = organizationId}

\* generateFolder, lines 342-356
generateFolder(userId, organizationId) ==
  IF organizationId # None THEN <<"organizations", organizationId>>
  ELSE IF userId # None THEN <<"users", userId>>
  ELSE <<"public", None>>

\* the storage key save returns: LocalStorageProvider.save (storage.service
\* lines 50-56) appends <ms>-<random> to the name, the call slot standing
\* for the suffix; B2StorageProvider.save (part_016 line 31) uses
\* folder/filename as it is
SaveKey(folder, filename, c) ==
  [folder |-> folder, name |-> filename,
   suffix |-> IF provider = "local" THEN <<"cu", c>> ELSE <<None, 0>>]

\* lines 64-72: validateFile, calculateChecksum, findDuplicate issued
CreateStart(c, userId, organizationId, file, filename, mime) ==
  /\ FirstIdle(cu, c)
  /\ cu' = [cu EXCEPT ![c] =
       IF validateFile(file, filename, mime) # None
       THEN [pc |-> "failed", err |-> validateFile(file, filename, mime),
             order |-> <<>>]
       ELSE [pc |-> "finding", userId |-> userId,
             organizationId |-> organizationId, file |-> file,
             filename |-> filename, mime |-> mime, recId |-> 0,
             order |-> <<>>]]
  /\ UNCHANGED <<keyVars, del, resp, now, tokenVars, put, provider, storeVars,
                 webhookVars>>

\* lines 72-82: findDuplicate settles; findFirst has no orderBy, so any
\* selected row may be the one returned
CreateFind(c) ==
  /\ cu[c].pc = "finding"
  /\ LET dups == findDuplicate(Checksum(cu[c].file), cu[c].userId,
                               cu[c].organizationId)
     IN IF dups # {}
        THEN \E i \in dups :
               cu' = [cu EXCEPT ![c] =
                        [pc |-> "done", recId |-> i, created |-> FALSE,
                         userId |-> cu[c].userId,
                         organizationId |-> cu[c].organizationId,
                         file |-> cu[c].file, order |-> cu[c].order]]
        ELSE cu' = [cu EXCEPT ![c].pc = "saving"]
  /\ UNCHANGED <<keyVars, del, resp, now, tokenVars, put, provider, storeVars,
                 webhookVars>>

\* lines 82-89: storageService.save settles
CreateSave(c, ok) ==
  /\ cu[c].pc = "saving"
  /\ LET key == SaveKey(generateFolder(cu[c].userId, cu[c].organizationId),
                        cu[c].filename, c)
     IN IF ok
        THEN /\ cu' = [cu EXCEPT ![c].pc = "persisting",
                                 ![c].order = Append(@, "write")]
             /\ IF provider = "local"
                THEN /\ disk' = WriteAt(disk, key, cu[c].file)
                     /\ bucket' = bucket
                ELSE /\ bucket' = WriteAt(bucket, key, cu[c].file)
                     /\ disk' = disk
        ELSE /\ cu' = [cu EXCEPT ![c] =
                         [pc |-> "failed", err |-> "Failed to save file",
                          order |-> cu[c].order]]
             /\ UNCHANGED <<disk, bucket>>
  /\ UNCHANGED <<keyVars, del, resp, now, tokenVars, put, provider, uploads,
                 usage, auditLog, webhookVars>>

\* lines 89-111: prisma.upload.create settles
CreatePersist(c, ok) ==
  /\ cu[c].pc = "persisting"
  /\ IF ok
     THEN /\ uploads' = Append(uploads,
               NewUpload(cu[c].userId, cu[c].organizationId, cu[c].file,
                         cu[c].mime,
                         SaveKey(generateFolder(cu[c].userId,
                                                cu[c].organizationId),
                                 cu[c].filename, c),
                         [path |-> "create", slot |-> c, token |-> 0]))
          /\ cu' = [cu EXCEPT ![c].pc = "auditing",
                              ![c].recId = Len(uploads) + 1,
                              ![c].order = Append(@, "persist")]
     ELSE /\ uploads' = uploads
          /\ cu' = [cu EXCEPT ![c] =
                      [pc |-> "failed", err |-> "create failed",
                       order |-> cu[c].order]]
  /\ UNCHANGED <<keyVars, del, resp, now, tokenVars, put, provider, disk,
                 bucket, usage, auditLog, webhookVars>>

\* a row prisma.auditLog.create inserts for an upload (lines 112-127 and
\* 227-237)
UploadAuditRow(action, uploadId) ==
  [action |-> action, resourceId |-> uploadId]

\* lines 111-130: prisma.auditLog.create settles and the row is returned
CreateAudit(c, ok) ==
  /\ cu[c].pc = "auditing"
  /\ IF ok
     THEN /\ auditLog' = auditLog \cup
               {UploadAuditRow("upload.created", cu[c].recId)}
          /\ cu' = [cu EXCEPT ![c] =
                      [pc |-> "done", recId |-> cu[c].recId,
                       created |-> TRUE, userId |-> cu[c].userId,
                       organizationId |-> cu[c].organizationId,
                       file |-> cu[c].file, order |-> cu[c].order]]
     ELSE /\ auditLog' = auditLog
          /\ cu' = [cu EXCEPT ![c] =
                      [pc |-> "failed", err |-> "audit failed",
                       order |-> cu[c].order]]
  /\ UNCHANGED <<keyVars, del, resp, now, tokenVars, put, provider, disk,
                 bucket, uploads, usage, webhookVars>>

\* --------------------------------------------------------- storage delete
NoResponse == [op |-> "none"]

NoDelete == [n |-> 0, result |-> "none"]

\* the keys save can have returned to a user's createUpload calls, and a
\* key no save has returned
DeleteKeys ==
  {SaveKey(generateFolder(u, None), "a.png", c) :
     u \in Users, c \in 1..MaxCreate}
  \cup {[folder |-> <<"public", None>>, name |-> "a.png",
         suffix |-> <<None, 0>>]}

\* StorageService.delete, lines 129-131.  LocalStorageProvider.delete
\* (lines 82-91): fs.unlink rejects when the file is missing and the catch
\* throws 'Failed to delete file'.  B2StorageProvider.delete (part_016
\* lines 73-86): DeleteObject on a key without an object succeeds.
storageDelete(key) ==
  /\ del.n < MaxDelete
  /\ IF provider = "local"
     THEN /\ disk' = {d \in disk : d.path # key}
          /\ bucket' = bucket
          /\ del' = [n |-> del.n + 1,
                     result |-> IF key \in Paths(disk) THEN "ok"
                                ELSE "Failed to delete file"]
     ELSE /\ bucket' = {d \in bucket : d.path # key}
          /\ disk' = disk
          /\ del' = [n |-> del.n + 1, result |-> "ok"]
  /\ UNCHANGED <<keyVars, resp, now, tokenVars, put, cu, provider, uploads,
                 usage, auditLog, webhookVars>>

\* --------------------------------------------------------------- API keys
\* a timestamp column that is null
NoDate == -1

KeyIds == {1, 2}

\* the keys created before the requests of a behaviour arrive: key 1 of u1
\* with the ceiling of two calls an hour and no expiry, key 2 of u2 with
\* the ceiling of one and an expiry
InitialKeys ==
  <<[userId |-> "u1", isActive |-> TRUE, revokedAt |-> NoDate,
     expiresAt |-> NoDate, rateLimit |-> 2, usageCount |-> 0, uses |-> 0],
    [userId |-> "u2", isActive |-> TRUE, revokedAt |-> NoDate,
     expiresAt |-> 2, rateLimit |-> 1, usageCount |-> 0, uses |-> 0]>>

\* a row prisma.auditLog.create inserts for an API key (part_015 lines
\* 55-68, 133-142, 166-175)
KeyAuditRow(action, keyId) ==
  [action |-> action, resourceId |-> keyId, createdAt |-> now]

NoAuth == [pc |-> "idle", n |-> 0]

\* the record of a finished authentication: 200 stands for next() without
\* an error, 401 and 429 for the AppError passed on
AuthDone(n, keyId, path, result) ==
  [pc |-> "done", n |-> n, key |-> keyId, path |-> path, result |-> result]

\* verifyApiKey lines 209-214: the rows its findMany selects
verifyCandidates ==
  {k \in KeyIds : apiKeys[k].isActive /\ apiKeys[k].revokedAt = NoDate}

\* validateApiKey lines 290-298: the rows its findMany selects
validateCandidates ==
  {k \in KeyIds :
     /\ apiKeys[k].isActive
     /\ apiKeys[k].expiresAt = NoDate \/ apiKeys[k].expiresAt > now}

\* authenticateApiKey, part_011 lines 185-216, with verifyApiKey, part_015
\* lines 207-241: a request presenting the secret of key keyId in X-API-Key,
\* up to the count that checkRateLimit issues
AuthHeader(keyId) ==
  /\ auth.pc # "limit"
  /\ auth.n < MaxAuth
  /\ IF keyId \notin verifyCandidates
     THEN /\ auth' = AuthDone(auth.n + 1, keyId, "header", 401)
          /\ apiKeys' = apiKeys
     ELSE IF apiKeys[keyId].expiresAt # NoDate
             /\ apiKeys[keyId].expiresAt < now
     THEN /\ auth' = AuthDone(auth.n + 1, keyId, "header", 401)
          /\ apiKeys' = apiKeys
     ELSE /\ auth' = [pc |-> "limit", n |-> auth.n + 1, key |-> keyId,
                     path |-> "header",
                     rateLimit |-> apiKeys[keyId].rateLimit]
          /\ apiKeys' = [apiKeys EXCEPT ![keyId].usageCount = @ + 1]
  /\ UNCHANGED <<keyAudit, del, resp, now, tokenVars, put, cu, provider,
                 storeVars, webhookVars>>

\* checkRateLimit lines 329-338: the audit rows it counts
usageCount(keyId) ==
  Cardinality({i \in DOMAIN keyAudit :
                 /\ keyAudit[i].resourceId = keyId
                 /\ keyAudit[i].createdAt >= now - ONE_HOUR})

\* checkRateLimit, part_015 lines 323-341, for the row verifyApiKey
\* returned
checkRateLimit(keyId, rateLimit) ==
  IF rateLimit = 0 THEN TRUE ELSE usageCount(keyId) < rateLimit

\* authenticateApiKey, part_011 lines 216-234: the count of checkRateLimit
\* settles
AuthRateLimit ==
  /\ auth.pc = "limit"
  /\ IF checkRateLimit(auth.key, auth.rateLimit)
     THEN /\ auth' = AuthDone(auth.n, auth.key, "header", 200)
          /\ apiKeys' = [apiKeys EXCEPT ![auth.key].uses = @ + 1]
     ELSE /\ auth' = AuthDone(auth.n, auth.key, "header", 429)
          /\ apiKeys' = apiKeys
  /\ UNCHANGED <<keyAudit, del, resp, now, tokenVars, put, cu, provider,
                 storeVars, webhookVars>>

\* authenticateWithApiKey, part_013 lines 63-102, with validateApiKey,
\* part_015 lines 287-318: a request presenting the secret of key keyId as
\* Bearer token
AuthBearer(keyId) ==
  /\ auth.pc # "limit"
  /\ auth.n < MaxAuth
  /\ IF keyId \in validateCandidates
     THEN /\ auth' = AuthDone(auth.n + 1, keyId, "bearer", 200)
          /\ apiKeys' = [apiKeys EXCEPT ![keyId].uses = @ + 1]
     ELSE /\ auth' = AuthDone(auth.n + 1, keyId, "bearer", 401)
          /\ apiKeys' = apiKeys
  /\ UNCHANGED <<keyAudit, del, resp, now, tokenVars, put, cu, provider,
                 storeVars, webhookVars>>

KeyOps ==
  Cardinality({i \in DOMAIN keyAudit : keyAudit[i].action # "created"})

\* updateApiKey, part_015 lines 120-146, with input {isActive}; the call
\* throws 404 when the key is not the caller's
updateApiKey(keyId, isActive, userId) ==
  /\ KeyOps < MaxKeyOps
  /\ apiKeys[keyId].userId = userId
  /\ apiKeys' = [apiKeys EXCEPT ![keyId].isActive = isActive]
  /\ keyAudit' = Append(keyAudit, KeyAuditRow("updated", keyId))
  /\ UNCHANGED <<auth, del, resp, now, tokenVars, put, cu, provider, storeVars,
                 webhookVars>>

\* revokeApiKey, part_015 lines 151-176
revokeApiKey(keyId, userId) ==
  /\ KeyOps < MaxKeyOps
  /\ apiKeys[keyId].userId = userId
  /\ apiKeys' = [apiKeys EXCEPT ![keyId].revokedAt = now,
                                ![keyId].isActive = FALSE]
  /\ keyAudit' = Append(keyAudit, KeyAuditRow("revoked", keyId))
  /\ UNCHANGED <<auth, del, resp, now, tokenVars, put, cu, provider, storeVars,
                 webhookVars>>

\* ------------------------------------------------------------ initial state
\* the webhooks registered before the requests of a behaviour arrive
InitialWebhooks ==
  {[id |-> 1, userId |-> "u1", isActive |-> TRUE,
    events |-> {"upload.completed"}, secret |-> generateSecret(1)],
   [id |-> 2, userId |-> "u1", isActive |-> FALSE,
    events |-> {"upload.completed"}, secret |-> generateSecret(2)],
   [id |-> 3, userId |-> "u2", isActive |-> TRUE,
    events |-> {"upload.deleted"}, secret |-> generateSecret(3)]}

Init ==
  /\ now = 0
  /\ uploadTokens = [k \in Tokens |-> NoToken]
  /\ nextToken = 1
  /\ put = [r \in 1..MaxPut |-> Idle]
  /\ cu = [c \in 1..MaxCreate |-> Idle]
  /\ provider \in Providers
  /\ disk = {}
  /\ bucket = {}
  /\ uploads = <<>>
  /\ usage = {}
  /\ auditLog = {}
  /\ events = <<>>
  /\ webhooks = InitialWebhooks
  /\ deliveries = <<>>
  /\ chains = <<>>
  /\ autoPosts = <<>>
  /\ apiKeys = InitialKeys
  /\ keyAudit = [k \in 1..Len(InitialKeys) |->
                   [action |-> "created", resourceId |-> k, createdAt |-> 0]]
  /\ auth = NoAuth
  /\ del = NoDelete
  /\ resp = NoResponse

InitLocal == Init /\ provider = "local"

Issued == 1..(nextToken - 1)

\* ----------------------------------------------------------- specifications
\* Spec: the direct-upload pipeline, prepare and PUT, with subscribers that
\* answer 2xx
Next ==
  \/ \E u \in Users, s \in 1..MAX_FILE_SIZE :
       generateUploadToken(u, "image/png", s)
  \/ \E r \in 1..MaxPut, t \in Issued, f \in Files, m \in Mimes :
       PutReceive(r, t, t, f, m)
  \/ \E r \in 1..MaxPut, ok \in BOOLEAN : PutWriteFile(r, ok)
  \/ \E r \in 1..MaxPut : PutConsume(r)
  \/ \E r \in 1..MaxPut, ok \in BOOLEAN : PutCreate(r, ok)
  \/ \E r \in 1..MaxPut, ok \in BOOLEAN : PutTrack(r, ok)
  \/ \E r \in 1..MaxPut : PutTrigger(r, TRUE, {})
  \/ \E r \in 1..MaxPut : PutRespond(r)
  \/ \E c \in DOMAIN chains : AttemptSettle(c, TRUE)

Spec == InitLocal /\ [][Next]_vars

\* SpecToken: the token table under the clock; every request stops at the
\* end of its validation
NextToken ==
  \/ Tick
  \/ \E u \in Users, m \in Mimes, s \in 1..MAX_FILE_SIZE :
       generateUploadToken(u, m, s)
  \/ \E r \in 1..MaxPut, t \in {Missing, Unknown} \cup Issued,
        i \in Tokens, f \in Files \cup {NoFile}, m \in Mimes :
       PutReceive(r, t, i, f, m)

SpecToken == InitLocal /\ [][NextToken]_vars

\* SpecCreate: concurrent createUpload calls on either storage provider
NextCreate ==
  \/ \E c \in 1..MaxCreate, u \in Users \cup {None}, o \in Orgs \cup {None},
        f \in Files, n \in Filenames, m \in Mimes \cup {"application/x-sh"} :
       CreateStart(c, u, o, f, n, m)
  \/ \E c \in 1..MaxCreate : CreateFind(c)
  \/ \E c \in 1..MaxCreate, ok \in BOOLEAN : CreateSave(c, ok)
  \/ \E c \in 1..MaxCreate, ok \in BOOLEAN : CreatePersist(c, ok)
  \/ \E c \in 1..MaxCreate, ok \in BOOLEAN : CreateAudit(c, ok)

SpecCreate == Init /\ [][NextCreate]_vars

\* SpecIngest: both ingestion paths side by side, on either storage
\* provider, with storage writes that may fail; one token per PUT request,
\* an owner without subscribers
NextIngest ==
  \/ /\ nextToken <= MaxIngest
     /\ generateUploadToken("u2", "image/png", 1)
  \/ \E r \in 1..MaxIngest \cap 1..MaxPut, t \in Issued :
       PutReceive(r, t, t, <<0>>, "image/png")
  \/ \E r \in 1..MaxPut, ok \in BOOLEAN : PutWriteFile(r, ok)
  \/ \E r \in 1..MaxPut : PutConsume(r)
  \/ \E r \in 1..MaxPut : PutCreate(r, TRUE)
  \/ \E r \in 1..MaxPut : PutTrack(r, TRUE)
  \/ \E r \in 1..MaxPut : PutTrigger(r, TRUE, {})
  \/ \E r \in 1..MaxPut : PutRespond(r)
  \/ \E c \in 1..MaxIngest \cap 1..MaxCreate, f \in {<<0>>, <<1>>} :
       CreateStart(c, "u2", None, f, "a.png", "image/png")
  \/ \E c \in 1..MaxCreate : CreateFind(c)
  \/ \E c \in 1..MaxCreate, ok \in BOOLEAN : CreateSave(c, ok)
  \/ \E c \in 1..MaxCreate : CreatePersist(c, TRUE)
  \/ \E c \in 1..MaxCreate : CreateAudit(c, TRUE)

SpecIngest == Init /\ [][NextIngest]_vars

\* SpecWebhook: one emitted event, its timer retries and manual retries
NextWebhook ==
  \/ \E u \in Users : TriggerEvent(u, "upload.completed", {})
  \/ \E c \in DOMAIN chains, ok \in BOOLEAN : AttemptSettle(c, ok)
  \/ \E c \in DOMAIN chains : TimerFire(c)
  \/ \E d \in DOMAIN deliveries, u \in Users : retryDelivery(d, u)

SpecWebhook == InitLocal /\ [][NextWebhook]_vars

WebhookIds == {w.id : w \in webhooks}

\* SpecEmit: webhooks are registered and events emitted for both users;
\* the insert of a delivery row and the first POST of a delivery may fail
\* (the retries that follow a failed POST are the subject of SpecWebhook)
NextEmit ==
  \/ \E u \in Users, a \in BOOLEAN,
        evs \in {{"upload.completed"},
                 {"upload.completed", "upload.deleted"}} :
       createWebhook(u, evs, None, a)
  \/ \E u \in Users, e \in {"upload.completed", "upload.deleted"},
        failing \in SUBSET WebhookIds :
       TriggerEvent(u, e, failing)
  \/ \E c \in DOMAIN chains, ok \in BOOLEAN : AttemptSettle(c, ok)

SpecEmit == InitLocal /\ [][NextEmit]_vars

\* SpecNotify: uploads of a user with a subscriber; storage, the uploads
\* table and the usage tracker work, while the webhook subsystem may fail
\* at its lookup, at the insert of a delivery row and at every POST

NextNotify ==
  \/ generateUploadToken("u1", "image/png", 1)
  \/ \E r \in 1..MaxPut, t \in Issued :
       PutReceive(r, t, t, <<0>>, "image/png")
  \/ \E r \in 1..MaxPut : PutWriteFile(r, TRUE)
  \/ \E r \in 1..MaxPut : PutConsume(r)
  \/ \E r \in 1..MaxPut : PutCreate(r, TRUE)
  \/ \E r \in 1..MaxPut : PutTrack(r, TRUE)
  \/ \E r \in 1..MaxPut, found \in BOOLEAN, failing \in SUBSET WebhookIds :
       PutTrigger(r, found, failing)
  \/ \E r \in 1..MaxPut : PutRespond(r)
  \/ \E c \in DOMAIN chains, ok \in BOOLEAN : AttemptSettle(c, ok)
  \/ \E c \in DOMAIN chains : TimerFire(c)

SpecNotify == InitLocal /\ [][NextNotify]_vars

\* SpecStorage: createUpload calls fill the store of either provider while
\* objects are deleted by key
NextStorage ==
  \/ \E c \in 1..MaxCreate, u \in Users, f \in {<<0>>, <<1>>} :
       CreateStart(c, u, None, f, "a.png", "image/png")
  \/ \E c \in 1..MaxCreate : CreateFind(c)
  \/ \E c \in 1..MaxCreate : CreateSave(c, TRUE)
  \/ \E c \in 1..MaxCreate : CreatePersist(c, TRUE)
  \/ \E c \in 1..MaxCreate : CreateAudit(c, TRUE)
  \/ \E key \in DeleteKeys : storageDelete(key)

SpecStorage == Init /\ [][NextStorage]_vars

\* SpecKeys: requests that present an API key in either header, while the
\* keys are updated and revoked and the clock advances
NextKeys ==
  \/ Tick
  \/ \E k \in KeyIds : AuthHeader(k)
  \/ AuthRateLimit
  \/ \E k \in KeyIds : AuthBearer(k)
  \/ \E k \in KeyIds, a \in BOOLEAN, u \in Users : updateApiKey(k, a, u)
  \/ \E k \in KeyIds, u \in Users : revokeApiKey(k, u)

SpecKeys == InitLocal /\ [][NextKeys]_vars

\* SpecFailing: subscribers that fail every POST; the process is not
\* restarted, and retryDelivery is called only on deliveries that have
\* FAILED.  A POST settles within axios's 10 s timeout and a timer that was
\* set fires, hence the weak fairness of the engine's steps.
Engine ==
  \E c \in DOMAIN chains : AttemptSettle(c, FALSE) \/ TimerFire(c)

NextFailing ==
  \/ /\ Len(events) < MaxEmit
     /\ triggerEvent("u1", "upload.completed", Len(events), <<"emit">>, {})
     /\ UNCHANGED <<keyVars, del, resp, now, tokenVars, put, cu, provider,
                    storeVars>>
  \/ Engine
  \/ \E d \in DOMAIN deliveries :
       /\ deliveries[d].status = "FAILED"
       /\ retryDelivery(d, "u1")

SpecFailing == InitLocal /\ [][NextFailing]_vars /\ WF_vars(Engine)
\* ------------------------------------------------------------------ claims
PutRows(t) ==
  {i \in DOMAIN uploads :
     uploads[i].via.path = "put" /\ uploads[i].via.token = t}

RowsOf(path, slot) ==
  {i \in DOMAIN uploads :
     uploads[i].via.path = path /\ uploads[i].via.slot = slot}

\* C1: for every token, at most one PUT request that presents it creates an
\* UploadRecord.
C1_SingleUse ==
  \A t \in Tokens : Cardinality(PutRows(t)) <= 1

\* C2: validateToken returns null for every token of the table with
\* now >= expiresAt, and a token it has reported invalid is never
\* reported valid afterwards.
C2_ExpiredIsInvalid ==
  /\ [](\A t \in Tokens :
          (uploadTokens[t] # NoToken /\ now >= uploadTokens[t].expiresAt)
            => validateToken(t) = NoToken)
  /\ [][\A t \in Tokens :
          (t < nextToken /\ validateToken(t) = NoToken)
            => validateToken(t)' = NoToken]_vars

\* C3: two completed uploads of the same owner with byte-identical content,
\* made with different tokens, return the id of the same UploadRecord.
C3_TokenPathDeduplicates ==
  \A r1, r2 \in 1..MaxPut :
    (/\ put[r1].pc = "done" /\ put[r2].pc = "done"
     /\ put[r1].token # put[r2].token
     /\ uploads[put[r1].recId].userId = uploads[put[r2].recId].userId
     /\ uploads[put[r1].recId].checksum = uploads[put[r2].recId].checksum)
    => put[r1].recId = put[r2].recId

\* C4: createUpload leaves at most one UploadRecord per owner and checksum,
\* whatever the interleaving of the calls.
C4_OneRecordPerOwnerChecksum ==
  \A i, j \in DOMAIN uploads :
    (/\ uploads[i].via.path = "create" /\ uploads[j].via.path = "create"
     /\ uploads[i].userId = uploads[j].userId
     /\ uploads[i].organizationId = uploads[j].organizationId
     /\ uploads[i].checksum = uploads[j].checksum)
    => i = j

\* C5: a successful token-based ingestion has written the file, then
\* persisted the UploadRecord, then consumed the token, then emitted
\* upload.completed, in this order.
C5_IngestionOrder ==
  \A r \in 1..MaxPut :
    put[r].pc = "done"
      => put[r].order = <<"write", "persist", "consume", "emit">>

Precedes(a, b, order) ==
  \E i, j \in DOMAIN order : i < j /\ order[i] = a /\ order[j] = b

Creator(row) ==
  IF row.via.path = "put" THEN put[row.via.slot] ELSE cu[row.via.slot]

EmittedFor(i) == \E k \in DOMAIN events : events[k].data = i

\* C6: every UploadRecord was persisted by a request that had completed its
\* storage write before, and its storage key exists in the store that was
\* written; a request whose storage write failed ended with an error, has
\* persisted no UploadRecord and emitted no event.
C6_NoRecordWithoutWrite ==
  /\ \A i \in DOMAIN uploads :
       /\ Precedes("write", "persist", Creator(uploads[i]).order)
       /\ uploads[i].storagePath \in Paths(disk) \cup Paths(bucket)
  /\ \A r \in 1..MaxPut :
       (put[r].pc = "failed" /\ put[r].err = "write failed")
         => /\ RowsOf("put", r) = {}
            /\ \A k \in DOMAIN events :
                 uploads[events[k].data].via # [path |-> "put", slot |-> r,
                                                token |-> put[r].token]
  /\ \A c \in 1..MaxCreate :
       (cu[c].pc = "failed" /\ cu[c].err = "Failed to save file")
         => RowsOf("create", c) = {}
  /\ \A r \in 1..MaxPut :
       (put[r].pc # "idle" /\ "write" \notin
            {put[r].order[k] : k \in DOMAIN put[r].order})
         => RowsOf("put", r) = {}
  /\ \A c \in 1..MaxCreate :
       (cu[c].pc # "idle" /\ "write" \notin
            {cu[c].order[k] : k \in DOMAIN cu[c].order})
         => RowsOf("create", c) = {}

\* C6 witness: on both paths a storage write has failed
C6_Witness ==
  /\ \E r \in 1..MaxPut : put[r].pc = "failed" /\ put[r].err = "write failed"
  /\ \E c \in 1..MaxCreate :
       cu[c].pc = "failed" /\ cu[c].err = "Failed to save file"

\* C7: once a PUT has been rejected because the file exceeds the token's
\* maxFileSize, no later request presenting that token creates an
\* UploadRecord.
C7_RejectedTokenNeverReusable ==
  \A r1, r2 \in 1..MaxPut :
    (/\ r1 < r2
     /\ put[r1].pc = "failed"
     /\ put[r1].err = "File size exceeds allowed limit")
    => ~ \E i \in RowsOf("put", r2) : uploads[i].via.token = put[r1].token

\* C8: no delivery gets more than maxAttempts POSTs that were not issued
\* directly by a retryDelivery call.
C8_AutomaticAttemptsBounded ==
  \A d \in DOMAIN deliveries : autoPosts[d] <= MAX_ATTEMPTS

\* the chain whose update of the row this step performs is one whose POST
\* was issued directly by retryDelivery
ManualUpdateStep(d) ==
  \E c \in DOMAIN chains :
    /\ chains[c].d = d /\ chains[c].manual /\ ~chains[c].settled
    /\ chains[c].pc = "post" /\ chains'[c].settled

\* C9: a DELIVERED delivery keeps its status; a FAILED delivery changes
\* status only in the update of a manual retryDelivery, and never to
\* PENDING.
C9_StatusOneDirectional ==
  [][\A d \in DOMAIN deliveries :
       /\ deliveries[d].status = "DELIVERED"
            => deliveries'[d].status = "DELIVERED"
       /\ deliveries[d].status = "FAILED"
            => /\ deliveries'[d].status # "PENDING"
               /\ deliveries'[d].status # "FAILED" => ManualUpdateStep(d)]_vars

\* C10: the stored attempts of a delivery never decreases.
C10_AttemptsMonotonic ==
  [][\A d \in DOMAIN deliveries :
       deliveries'[d].attempts >= deliveries[d].attempts]_vars

\* the payload object deliverWebhook built for a delivery: the one whose
\* JSON text the row has stored since its creation
Original(d) == Parse(deliveries[d].payload)

\* C11: every POST in flight for a delivery, whether issued by
\* deliverWebhook, by a retry timer or by retryDelivery, sends the bytes
\* stored as the payload of the delivery row and the signature of the first
\* attempt, the HMAC of the webhook secret over the JSON text of the payload.
C11_SamePayloadAndSignature ==
  \A c \in DOMAIN chains :
    chains[c].pc = "post"
      => /\ Wire(Body(c)) = deliveries[chains[c].d].payload
         /\ Signature(c) =
              generateSignature(Original(chains[c].d),
                                Secret(deliveries[chains[c].d].webhookId))

ManualFor(d) == {c \in ManualChains : chains[c].d = d}

\* C12: with a subscriber that fails every POST and no manual retry so far,
\* a delivery eventually is FAILED with attempts = 3 after exactly three
\* POSTs; retryDelivery on a FAILED delivery is accepted, and the call
\* issues one more POST, with attempt = stored attempts + 1.
C12_FailsAfterThreeThenRetryable ==
  /\ \A d \in 1..MaxEmit :
       (d \in DOMAIN deliveries /\ ManualFor(d) = {})
         ~> (/\ d \in DOMAIN deliveries /\ ManualFor(d) = {}
             /\ deliveries[d].status = "FAILED"
             /\ deliveries[d].attempts = MAX_ATTEMPTS
             /\ autoPosts[d] = MAX_ATTEMPTS)
  /\ [](\A d \in 1..MaxEmit :
         (/\ d \in DOMAIN deliveries
          /\ deliveries[d].status = "FAILED"
          /\ Cardinality(ManualChains) < MaxRetry)
           => ENABLED retryDelivery(d, "u1"))
  /\ [][\A d \in 1..MaxEmit :
         (d \in DOMAIN deliveries /\ ManualFor(d)' # ManualFor(d))
           => \E c \in ManualFor(d)' \ ManualFor(d) :
                /\ chains'[c].pc = "post"
                /\ chains'[c].attempt = deliveries[d].attempts + 1
                /\ ManualFor(d)' = ManualFor(d) \cup {c}]_vars

\* C12 witness: a delivery FAILED after three attempts for which a
\* retryDelivery call has its POST in flight
C12_Witness ==
  \E d \in DOMAIN deliveries :
    /\ deliveries[d].status = "FAILED"
    /\ deliveries[d].attempts = MAX_ATTEMPTS
    /\ autoPosts[d] = MAX_ATTEMPTS
    /\ \E c \in ManualFor(d) :
         chains[c].pc = "post" /\ chains[c].attempt = MAX_ATTEMPTS + 1
\* C13: the POST issued by retryDelivery on a delivery with stored
\* attempts k is the only POST the call causes: when it settles, with
\* either outcome and whatever the status, the row has attempts = k + 1
\* and no further POST is scheduled; and a FAILED delivery becomes
\* DELIVERED only in the update of a retryDelivery call's own POST.
C13_ManualRetryIsOnePost ==
  [][/\ \A c \in DOMAIN chains :
          (/\ chains[c].manual /\ ~chains[c].settled
           /\ chains[c].pc = "post" /\ chains'[c].settled)
            => /\ deliveries'[chains[c].d].attempts = chains[c].attempt
               /\ chains'[c].pc = "end"
     /\ \A d \in DOMAIN deliveries :
          (/\ deliveries[d].status = "FAILED"
           /\ deliveries'[d].status = "DELIVERED")
            => ManualUpdateStep(d)]_vars
\* C14: once the PUT handler has called triggerEvent, its response can be
\* sent at once: it does not wait for the POST of any delivery of the
\* event to settle.
C14_ResponseDoesNotWait ==
  \A r \in 1..MaxPut :
    put[r].pc = "responding" => ENABLED PutRespond(r)
Steps(order) == {order[k] : k \in DOMAIN order}

\* C15: a PUT request that has persisted its UploadRecord and consumed its
\* token does not end with an error, whatever the webhook lookup, the
\* insert of the delivery rows and the POSTs do.
C15_WebhookFailureNeverFailsUpload ==
  \A r \in 1..MaxPut :
    put[r].pc = "failed"
      => ~({"persist", "consume"} \subseteq Steps(put[r].order))
\* the webhooks the claim makes eligible for an emitted event
Eligible(ev) ==
  {w \in webhooks :
     w.userId = ev.userId /\ w.isActive /\ ev.event \in w.events}

\* C16: a triggerEvent call inserts one delivery row, PENDING with
\* attempts 0 and its first POST issued, for each webhook of the owner that
\* is active and lists the event, except those whose insert fails, and no
\* other row; and a step changes the row of a delivery only by settling a
\* POST of that delivery, so a failed insert or POST for one webhook leaves
\* the deliveries of the others as they are.
C16_EmitSelectsActiveListeners ==
  [][/\ Len(events') = Len(events) + 1 =>
          LET ev  == events'[Len(events')]
              new == (Len(deliveries) + 1)..Len(deliveries')
          IN /\ \A d \in new :
                  /\ deliveries'[d].status = "PENDING"
                  /\ deliveries'[d].attempts = 0
                  /\ deliveries'[d].event = ev.event
                  /\ \E w \in Eligible(ev) : w.id = deliveries'[d].webhookId
                  /\ \E c \in DOMAIN chains' \ DOMAIN chains :
                       /\ chains'[c].d = d
                       /\ chains'[c].pc = "post"
                       /\ chains'[c].attempt = 1
             /\ \A w \in Eligible(ev) :
                  Cardinality({d \in new :
                                 deliveries'[d].webhookId = w.id})
                    = IF w.id \in ev.failed THEN 0 ELSE 1
     /\ \A d \in DOMAIN deliveries :
          deliveries'[d] # deliveries[d]
            => \E c \in DOMAIN chains :
                 /\ chains[c].d = d
                 /\ chains[c].pc = "post"
                 /\ chains'[c].pc # "post"]_vars

\* C16 witness: an emit for which the insert failed for one eligible
\* webhook while the delivery to another one was made, the owner having an
\* inactive webhook that lists the event and got no delivery
C16_Witness ==
  \E k \in DOMAIN events :
    /\ events[k].failed # {}
    /\ \E d \in DOMAIN deliveries :
         /\ deliveries[d].webhookId \notin events[k].failed
         /\ deliveries[d].event = events[k].event
         /\ deliveries[d].status = "DELIVERED"
    /\ \E w \in webhooks :
         /\ w.userId = events[k].userId /\ ~w.isActive
         /\ events[k].event \in w.events
         /\ \A d \in DOMAIN deliveries : deliveries[d].webhookId # w.id
\* an authentication finishes in this step
AuthEnds == auth.pc # "done" \/ auth'.n # auth.n

\* a key that is active, not revoked and not expired
Usable(k) ==
  /\ apiKeys[k].isActive
  /\ apiKeys[k].revokedAt = NoDate
  /\ apiKeys[k].expiresAt = NoDate \/ apiKeys[k].expiresAt > now

\* C17: a request that presents, in X-API-Key, a usable key whose ceiling
\* N is set and that has already been used for N authenticated calls
\* within the hour is answered 429.
C17_RateLimitCountsUses ==
  [][(/\ auth'.pc = "done" /\ AuthEnds
      /\ auth'.path = "header"
      /\ Usable(auth'.key)
      /\ apiKeys[auth'.key].rateLimit > 0
      /\ apiKeys[auth'.key].uses >= apiKeys[auth'.key].rateLimit
      /\ now < ONE_HOUR)
       => auth'.result = 429]_vars
\* a request presenting key k passes the key checks in this step
Accepts(k) ==
  /\ auth'.n = auth.n + 1
  /\ auth'.key = k
  /\ auth'.pc = "limit" \/ auth'.result = 200

\* C18: on both paths a request passes the key checks only with a key that
\* is active, not revoked and not past its expiry; a key that has been
\* revoked passes them never again, whatever updateApiKey has done since.
C18_RevokedNeverAuthenticates ==
  [][\A k \in KeyIds :
       Accepts(k)
         => /\ apiKeys[k].isActive
            /\ apiKeys[k].revokedAt = NoDate
            /\ apiKeys[k].expiresAt = NoDate
                 \/ apiKeys[k].expiresAt >= now]_vars
\* the bytes a row's storage key holds in the disk or the bucket
StoredAt(path) == {d.bytes : d \in {x \in disk \cup bucket : x.path = path}}

\* C19: on either provider, no two UploadRecords share a storage key, and
\* the object under a record's key still holds the bytes saved for that
\* record: no later save has replaced them.
C19_SaveNeverOverwrites ==
  /\ \A i, j \in DOMAIN uploads :
       uploads[i].storagePath = uploads[j].storagePath => i = j
  /\ \A i \in DOMAIN uploads :
       \A b \in StoredAt(uploads[i].storagePath) :
         Checksum(b) = uploads[i].checksum
\* C20: on either provider, a StorageService.delete of a key that holds no
\* object returns without an error and leaves the store as it is.
C20_DeleteIsIdempotent ==
  [][\A key \in DeleteKeys :
       (/\ del'.n = del.n + 1
        /\ key \notin Paths(disk) \cup Paths(bucket)
        /\ storageDelete(key))
         => /\ del'.result = "ok"
            /\ disk' = disk /\ bucket' = bucket]_vars
\* StorageService.get, lines 125-127, with LocalStorageProvider.get (lines
\* 71-80) and B2StorageProvider.get (part_016 lines 50-71): the bytes
\* under a key in the store of the configured provider, none when the get
\* throws
storageGet(key) ==
  {d.bytes : d \in {x \in IF provider = "local" THEN disk ELSE bucket :
                       x.path = key}}

\* the key storageService.save returned to a createUpload call
SavedKey(c) ==
  SaveKey(generateFolder(cu[c].userId, cu[c].organizationId),
          cu[c].filename, c)

\* C21: on either provider, get of the key that save returned to a call
\* yields exactly the bytes of that call, whatever other calls have saved
\* since.
C21_RoundTrip ==
  \A c \in 1..MaxCreate :
    cu[c].pc \in {"persisting", "auditing"}
      => storageGet(SavedKey(c)) = {cu[c].file}
\* ---------------------------------------------- webhook management routes
\* getWebhooks, lines 47-52: findMany selects whole rows
getWebhooks(userId) == {w \in webhooks : w.userId = userId}

\* getWebhookById, lines 57-70: the row findFirst returns, none when the
\* call throws 'Webhook not found'
getWebhookById(webhookId, userId) ==
  {w \in webhooks : w.id = webhookId /\ w.userId = userId}

\* res.json({ success, data }) of a webhook route: the rows it serialises
HookAnswer(op, error, rows) ==
  [op |-> op, error |-> error, webhooks |-> rows]

\* WebhookController.getAll, lines 35-50
getAll(userId) ==
  /\ resp' = HookAnswer("getAll", None, getWebhooks(userId))
  /\ UNCHANGED <<keyVars, del, now, tokenVars, put, cu, provider, storeVars,
                 webhookVars>>

\* WebhookController.getById, lines 56-74
getById(webhookId, userId) ==
  /\ resp' = IF getWebhookById(webhookId, userId) = {}
             THEN HookAnswer("getById", "Webhook not found", {})
             ELSE HookAnswer("getById", None,
                             getWebhookById(webhookId, userId))
  /\ UNCHANGED <<keyVars, del, now, tokenVars, put, cu, provider, storeVars,
                 webhookVars>>

\* updateWebhook, lines 75-90: the row after prisma.webhook.update; a field
\* absent from the body (not in given) is undefined and left as it is
Updated(w, given, evs, isActive) ==
  [w EXCEPT !.events   = IF "events" \in given THEN evs ELSE @,
            !.isActive = IF "isActive" \in given THEN isActive ELSE @]

\* WebhookController.update, lines 80-100
update(webhookId, userId, given, evs, isActive) ==
  /\ IF getWebhookById(webhookId, userId) = {}
     THEN /\ resp' = HookAnswer("update", "Webhook not found", {})
          /\ UNCHANGED webhooks
     ELSE LET w == CHOOSE x \in getWebhookById(webhookId, userId) : TRUE
              new == Updated(w, given, evs, isActive)
          IN /\ webhooks' = (webhooks \ {w}) \cup {new}
             /\ resp' = HookAnswer("update", None, {new})
  /\ UNCHANGED <<keyVars, del, now, tokenVars, put, cu, provider, storeVars,
                 events, deliveries, chains, autoPosts>>

\* SpecManage: webhooks are created, listed, read and updated
NextManage ==
  \/ \E u \in Users, a \in BOOLEAN :
       createWebhook(u, {"upload.completed"}, None, a)
  \/ \E u \in Users : getAll(u)
  \/ \E w \in 1..(3 + MaxHooks), u \in Users : getById(w, u)
  \/ \E w \in 1..(3 + MaxHooks), u \in Users,
        given \in SUBSET {"events", "isActive"}, a \in BOOLEAN :
       update(w, u, given, {"upload.deleted"}, a)

SpecManage == InitLocal /\ [][NextManage]_vars

\* C24: no answer of the list, get-by-id or update route carries the
\* secret of a webhook.
C24_SecretOnlyAtCreation ==
  resp.op \in {"getAll", "getById", "update"}
    => \A w \in resp.webhooks : "secret" \notin DOMAIN w

\* ------------------------------------------------- deliveries and deletion
\* deleteWebhook, lines 95-103: getWebhookById, then prisma.webhook.delete
deleteWebhook(webhookId, userId) ==
  /\ getWebhookById(webhookId, userId) # {}
  /\ webhooks' = webhooks \ getWebhookById(webhookId, userId)
  /\ UNCHANGED <<keyVars, del, resp, now, tokenVars, put, cu, provider,
                 storeVars, events, deliveries, chains, autoPosts>>

\* attemptDelivery, lines 172-223, when prisma.webhookDelivery.update
\* rejects, because the row is gone or because the database fails
\* (updateFails).  After a 2xx the rejection of the update at line 185 is
\* caught at line 197 and the update at line 202 is tried; the rejection
\* of that one leaves the catch block, so attemptDelivery rejects.  The
\* first call of a chain is awaited by deliverWebhook (line 159) or by
\* retryDelivery (line 260), which get the rejection; a call made by the
\* timer callback (line 218) is not awaited and has no catch.
AttemptReject(c, updateFails) ==
  /\ c \in DOMAIN chains
  /\ chains[c].pc = "post"
  /\ updateFails \/ ~RowExists(chains[c].d)
  /\ chains' = [chains EXCEPT ![c] =
       [@ EXCEPT !.settled = TRUE,
                 !.pc = IF chains[c].settled THEN "unhandled"
                        ELSE "rejected"]]
  /\ UNCHANGED <<keyVars, del, resp, now, tokenVars, put, cu, provider,
                 storeVars, events, webhooks, deliveries, autoPosts>>

\* SpecCascade: deliveries whose POSTs and row updates may fail, while
\* webhooks are deleted
NextCascade ==
  \/ TriggerEvent("u1", "upload.completed", {})
  \/ \E c \in DOMAIN chains, ok \in BOOLEAN : AttemptSettle(c, ok)
  \/ \E c \in DOMAIN chains : TimerFire(c)
  \/ \E c \in DOMAIN chains, f \in BOOLEAN : AttemptReject(c, f)
  \/ \E d \in DOMAIN deliveries : retryDelivery(d, "u1")
  \/ \E w \in WebhookIds, u \in Users : deleteWebhook(w, u)

SpecCascade == InitLocal /\ [][NextCascade]_vars

\* C25: no attemptDelivery call ends in a rejection that nobody handles:
\* a failure is written on the row or reaches the caller that awaits the
\* call.
C25_NoUnhandledRejection ==
  \A c \in DOMAIN chains : chains[c].pc # "unhandled"

\* ------------------------------------------------------- token expiry
\* SpecSweep: tokens are generated and presented while the clock advances.
\* Time passes whatever the clients do (fairness of Tick); no client is
\* obliged to call again.  The service starts no timer: the only calls of
\* cleanupExpiredTokens and of validateToken are those of the requests.
NextSweep ==
  \/ Tick
  \/ \E u \in Users, s \in 1..MAX_FILE_SIZE :
       generateUploadToken(u, "image/png", s)
  \/ \E r \in 1..MaxPut, t \in Issued :
       PutReceive(r, t, t, <<0>>, "image/png")

SpecSweep == InitLocal /\ [][NextSweep]_vars /\ WF_vars(Tick)

\* C26: a token that is in the table past its expiresAt is eventually
\* removed from the table, whether or not another request arrives.
C26_ExpiredEventuallyRemoved ==
  \A k \in Tokens :
    (uploadTokens[k] # NoToken /\ Expired(uploadTokens[k]))
      ~> (uploadTokens[k] = NoToken)

\* --------------------------------------------------- rejected PUT requests
\* SpecValidate: PUT requests with every kind of token and file, next to
\* requests that pass validation and are written and recorded
NextValidate ==
  \/ Tick
  \/ generateUploadToken("u2", "image/png", 1)
  \/ \E r \in 1..MaxIngest \cap 1..MaxPut,
        t \in {Missing, Unknown} \cup Issued, i \in Tokens,
        f \in {<<0>>, <<0, 0>>, NoFile}, m \in Mimes :
       PutReceive(r, t, i, f, m)
  \/ \E r \in 1..MaxPut : PutWriteFile(r, TRUE)
  \/ \E r \in 1..MaxPut : PutConsume(r)
  \/ \E r \in 1..MaxPut : PutCreate(r, TRUE)

SpecValidate == InitLocal /\ [][NextValidate]_vars

\* the request of slot r is rejected by this step, during validation
Rejected(r) == put[r] = Idle /\ put'[r].pc = "failed"

\* C27: a PUT request rejected during validation writes nothing to
\* storage, inserts no upload row, tracks no usage, emits no event and
\* leaves every token other than the one it presented as it was.
C27_RejectionHasNoSideEffects ==
  [][\A r \in 1..MaxPut :
       Rejected(r) =>
         /\ UNCHANGED <<disk, bucket, uploads, usage, auditLog>>
         /\ UNCHANGED <<events, deliveries, chains, autoPosts>>
         /\ \A k \in Tokens \ {put'[r].token} :
              uploadTokens'[k] = uploadTokens[k]]_vars

\* a request was rejected for an expired or mismatched token while another
\* token is in the table, expired
C27_Witness ==
  \E r \in 1..MaxPut :
    /\ put[r].pc = "failed"
    /\ put[r].err = "Invalid or expired upload token"
    /\ put[r].token \in Tokens
    /\ \E k \in Tokens \ {put[r].token} :
         uploadTokens[k] # NoToken /\ Expired(uploadTokens[k])

\* ------------------------------------------------------------- file URLs
NEVER == 0
NoUrl == [kind |-> "none", path |-> None, expiresIn |-> NEVER]

\* LocalStorageProvider.getUrl (lines 103-105) and B2StorageProvider.getUrl
\* (part_016 lines 105-109): baseUrl/filepath, a link with no expiry
getUrl(filepath) ==
  [kind |-> "public", path |-> filepath, expiresIn |-> NEVER]

\* StorageService.getSignedUrl, lines 141-147: only B2StorageProvider has a
\* getSignedUrl (part_016 lines 111-124); LocalStorageProvider has none, so
\* the call falls back to getUrl
getSignedUrl(filepath, expiresIn) ==
  IF provider = "b2"
  THEN [kind |-> "signed", path |-> filepath, expiresIn |-> expiresIn]
  ELSE getUrl(filepath)

UrlAnswer(error, url) == [op |-> "fileUrl", error |-> error, url |-> url]

\* GET /api/v1/files/:fileId/url, part_007 lines 13-45 (uploads of this
\* model are created with isPublic false)
FileUrl(fileId, userId) ==
  /\ resp' =
       IF fileId \notin DOMAIN uploads
       THEN UrlAnswer("File not found", NoUrl)
       ELSE IF uploads[fileId].userId # userId
       THEN UrlAnswer("Access denied", NoUrl)
       ELSE UrlAnswer(None, getSignedUrl(uploads[fileId].storagePath, 3600))
  /\ UNCHANGED <<keyVars, del, now, tokenVars, put, cu, provider, storeVars,
                 webhookVars>>

\* SpecUrl: createUpload calls on either provider, and requests for the
\* URL of an upload
NextUrl ==
  \/ \E c \in 1..MaxCreate, u \in Users, f \in {<<0>>, <<1>>} :
       CreateStart(c, u, None, f, "a.png", "image/png")
  \/ \E c \in 1..MaxCreate : CreateFind(c)
  \/ \E c \in 1..MaxCreate : CreateSave(c, TRUE)
  \/ \E c \in 1..MaxCreate : CreatePersist(c, TRUE)
  \/ \E c \in 1..MaxCreate : CreateAudit(c, TRUE)
  \/ \E id \in 1..(MaxCreate + 1), u \in Users : FileUrl(id, u)

SpecUrl == Init /\ [][NextUrl]_vars

\* C22: on the local provider a request for a signed URL fails; it is never
\* answered with a public URL that does not expire.
C22_LocalSignedUrlUnsupported ==
  (provider = "local" /\ resp.op = "fileUrl")
    => (resp.error # None /\ resp.url.kind # "public")

\* SpecPrepare: generateUploadToken alone under the clock, with declared
\* sizes on both sides of MAX_FILE_SIZE
DeclaredSizes == 1..(MAX_FILE_SIZE + 1)

NextPrepare ==
  \/ Tick
  \/ \E u \in Users, m \in Mimes, s \in DeclaredSizes :
       generateUploadToken(u, m, s)

SpecPrepare == InitLocal /\ [][NextPrepare]_vars

\* C23: a generateUploadToken call with a declared size above
\* MAX_FILE_SIZE throws and leaves the token table as it was; any other
\* call adds exactly one token, unexpired, expiring TOKEN_EXPIRY_MS after
\* the call, whose maxFileSize is the declared size.
C23_PrepareAllOrNothing ==
  [][\A u \in Users, m \in Mimes, s \in DeclaredSizes :
       generateUploadToken(u, m, s) =>
         IF s > MAX_FILE_SIZE
         THEN resp'.error # None /\ uploadTokens' = uploadTokens
         ELSE /\ resp'.error = None
              /\ \E k \in Tokens :
                   /\ uploadTokens[k] = NoToken
                   /\ uploadTokens'[k] # NoToken
                   /\ uploadTokens'[k].expiresAt = now + TOKEN_EXPIRY_MS
                   /\ uploadTokens'[k].expiresAt > now
                   /\ uploadTokens'[k].maxFileSize = s
                   /\ \A j \in Tokens \ {k} :
                        uploadTokens'[j] \in {NoToken, uploadTokens[j]}]_vars

\* a call was refused while a token of an earlier call is in the table
C23_Witness ==
  /\ resp.op = "generateUploadToken"
  /\ resp.error # None
  /\ \E k \in Tokens : uploadTokens[k] # NoToken /\ ~Expired(uploadTokens[k])
\* StorageService.exists, lines 133-135, with LocalStorageProvider.exists
\* (lines 93-101) and B2StorageProvider.exists: whether the store of the
\* configured provider has something under the key
exists(filepath) ==
  filepath \in Paths(IF provider = "local" THEN disk ELSE bucket)

\* C28: the storagePath of every upload row, of either ingestion path,
\* exists in the store of the configured provider.
C28_RecordsInConfiguredBackend ==
  \A i \in DOMAIN uploads : exists(uploads[i].storagePath)
\* the createUpload calls that returned an existing row (lines 72-76)
Deduplicated == {c \in 1..MaxCreate : cu[c].pc = "done" /\ ~cu[c].created}

\* C29: a createUpload call with neither userId nor organizationId is
\* never answered with a row that has an owner.
C29_AnonymousGetsNoOwnedRecord ==
  \A c \in Deduplicated :
    (cu[c].userId = None /\ cu[c].organizationId = None)
      => /\ uploads[cu[c].recId].userId = None
         /\ uploads[cu[c].recId].organizationId = None
\* ------------------------------------------------------------ soft delete
DELETED == "deleted"

\* getUploadById, lines 136-160: the message of the error it throws, None
\* when it returns the row (rows of this model have isPublic false)
getUploadById(uploadId, userId, organizationId) ==
  IF uploadId \notin DOMAIN uploads THEN "Upload not found"
  ELSE IF \/ userId # None /\ uploads[uploadId].userId # userId
          \/ /\ organizationId # None
             /\ uploads[uploadId].organizationId # organizationId
          \/ userId = None /\ organizationId = None
  THEN "Access denied"
  ELSE None

\* deleteUpload, lines 216-240: getUploadById, the update that sets
\* deletedAt (to the current date, kept as DELETED: only its presence is
\* read) and the audit row.  The two writes do not depend on anything
\* read between them, so the call is one step.
deleteUpload(uploadId, userId, organizationId) ==
  /\ getUploadById(uploadId, userId, organizationId) = None
  /\ uploads' = [uploads EXCEPT ![uploadId].deletedAt = DELETED]
  /\ auditLog' = auditLog \cup {UploadAuditRow("upload.deleted", uploadId)}
  /\ UNCHANGED <<keyVars, del, resp, now, tokenVars, put, cu, provider, disk,
                 bucket, usage, webhookVars>>

\* what a read of an upload gave its caller: the error thrown, or the row
\* getUploadById returned and, for a download, the bytes read
NoRow == [id |-> 0, deletedAt |-> None]
Read(op, error, row, bytes) ==
  [op |-> op, error |-> error, upload |-> row, bytes |-> bytes]

\* a getUploadById call of the GET /uploads/:id route
getUpload(uploadId, userId, organizationId) ==
  /\ resp' =
       IF getUploadById(uploadId, userId, organizationId) # None
       THEN Read("getUploadById",
                 getUploadById(uploadId, userId, organizationId), NoRow, {})
       ELSE Read("getUploadById", None, uploads[uploadId], {})
  /\ UNCHANGED <<keyVars, del, now, tokenVars, put, cu, provider, storeVars,
                 webhookVars>>

\* downloadUpload, lines 267-279 (no row of this model is quarantined)
downloadUpload(uploadId, userId, organizationId) ==
  /\ resp' =
       IF getUploadById(uploadId, userId, organizationId) # None
       THEN Read("downloadUpload",
                 getUploadById(uploadId, userId, organizationId), NoRow, {})
       ELSE IF storageGet(uploads[uploadId].storagePath) = {}
       THEN Read("downloadUpload", "File not found", uploads[uploadId], {})
       ELSE Read("downloadUpload", None, uploads[uploadId],
                 storageGet(uploads[uploadId].storagePath))
  /\ UNCHANGED <<keyVars, del, now, tokenVars, put, cu, provider, storeVars,
                 webhookVars>>

\* SpecSoftDelete: uploads of one user are created, soft-deleted, read and
\* downloaded
NextSoftDelete ==
  \/ \E c \in 1..MaxCreate, f \in {<<0>>, <<1>>} :
       CreateStart(c, "u1", None, f, "a.png", "image/png")
  \/ \E c \in 1..MaxCreate : CreateFind(c)
  \/ \E c \in 1..MaxCreate : CreateSave(c, TRUE)
  \/ \E c \in 1..MaxCreate : CreatePersist(c, TRUE)
  \/ \E c \in 1..MaxCreate : CreateAudit(c, TRUE)
  \/ \E id \in 1..MaxCreate, u \in Users : deleteUpload(id, u, None)
  \/ \E id \in 1..MaxCreate, u \in Users : getUpload(id, u, None)
  \/ \E id \in 1..MaxCreate, u \in Users : downloadUpload(id, u, None)

SpecSoftDelete == Init /\ [][NextSoftDelete]_vars

\* C30: a soft-deleted upload is never handed back: findDuplicate does not
\* make createUpload return a row whose deletedAt is set, and neither
\* getUploadById nor downloadUpload returns such a row.
C30_DeletedNeverReturned ==
  [][/\ \A c \in 1..MaxCreate :
          (cu[c].pc = "finding" /\ cu'[c].pc = "done")
            => uploads[cu'[c].recId].deletedAt = None
     /\ (resp'.op \in {"getUploadById", "downloadUpload"}
           /\ resp'.error = None)
          => resp'.upload.deletedAt = None]_vars
====
